---- MODULE Spec2Model ----
(***************************************************************************)
(* Model of the HackRX retrieval pipeline:                                 *)
(*   src/document_ingestion/document.py  DocumentProcessor (ingest, query) *)
(*   src/api/main.py                     run_hackrx, answer generation     *)
(* The remote services (download, embedding, generation, index store) and  *)
(* the local file system are the environment: every call either succeeds   *)
(* or raises, chosen nondeterministically.                                 *)
(***************************************************************************)
EXTENDS Integers, Sequences, FiniteSets, TLC

\* ------------------------------------------------------------- bounds
\* Largest number of questions in one request.
MaxQuestions == 2
\* Largest number of chunks of a document in the single-ingest specification.
MaxChunks == 102

\* ------------------------------------------------- program constants
batch_size == 50
top_k == 5
HTTP_200_OK == 200
HTTP_400_BAD_REQUEST == 400
HTTP_401_UNAUTHORIZED == 401
HTTP_500_INTERNAL_SERVER_ERROR == 500

\* ------------------------------------------------------------ values
\* Python's None, and the markers of the file system.
None == "<None>"
NoFile == "<no file>"
Partial == "<created, content not written>"

\* The request handlers that may be in flight at once on the one processor.
Procs == {"r1", "r2"}

UrlA == "https://docs.example.com/a/policy.pdf"
UrlB == "https://docs.example.com/b/policy.pdf"
UrlScan == "https://docs.example.com/scan.pdf"
UrlTxt == "https://docs.example.com/notes.txt"
Urls == {UrlA, UrlB, UrlScan, UrlTxt}

\* hashlib.md5(url.encode()).hexdigest()[:8], prefixed: the values are the
\* real digests of the four URLs.
IndexName(u) ==
  CASE u = UrlA -> "hackrx-doc-9f085963"
    [] u = UrlB -> "hackrx-doc-d0726a14"
    [] u = UrlScan -> "hackrx-doc-e9e869bb"
    [] u = UrlTxt -> "hackrx-doc-acd36c33"

IndexNames == {IndexName(u) : u \in Urls}

\* os.path.join(".", "temp_" + basename(urlparse(url).path).replace(" ", "_"))
TempPath(u) ==
  CASE u = UrlA -> "./temp_policy.pdf"
    [] u = UrlB -> "./temp_policy.pdf"
    [] u = UrlScan -> "./temp_scan.pdf"
    [] u = UrlTxt -> "./temp_notes.txt"

Paths == {TempPath(u) : u \in Urls}

\* file_path.lower().endswith(".pdf")
EndsWithPdf(path) == path \in {"./temp_policy.pdf", "./temp_scan.pdf"}

\* Python truthiness of an Optional[str]: None and "" are false.
Truthy(s) == s # None /\ s # ""

\* a or b
PyOr(a, b) == IF Truthy(a) THEN a ELSE b

Min(a, b) == IF a < b THEN a ELSE b

\* --------------------------------------------------------- variables
VARIABLES
  current_index_name, \* DocumentProcessor.current_index_name (shared)
  fs,                 \* the working directory: path -> content
  idx,                \* the index store: name -> [status, records]
  nchunks,            \* the remote documents: url -> chunks of its text (0: no text)
  pc,                 \* each handler's position
  caller,             \* who called the operation a handler is in
  hnd,                \* run_hackrx locals
  ing,                \* process_and_store_document locals
  qry,                \* query_documents locals
  log,                \* the file creations and remote calls each handler has made
                      \* since it last called into the processor, in order
  readySeen           \* index names some describe_index call has reported ready

vars == <<current_index_name, fs, idx, nchunks, pc, caller, hnd, ing, qry, log, readySeen>>

\* ----------------------------------------------------------- results
NoResult == [success |-> FALSE, message |-> "", chunks_processed |-> 0, index_name |-> None]

\* The failure dict of the outer except clause; its index name is read from
\* the processor, not from the local.
ExceptResult(e, cur) ==
  [success |-> FALSE, message |-> "Error processing document: " \o e,
   chunks_processed |-> 0, index_name |-> cur]

NoTextResult(name) ==
  [success |-> FALSE, message |-> "No text could be extracted from the PDF",
   chunks_processed |-> 0, index_name |-> name]

SuccessResult(cs, name) ==
  [success |-> TRUE, message |-> "Document processed and stored successfully",
   chunks_processed |-> Len(cs), index_name |-> name]

NoPending == [kind |-> "none", exc |-> "", value |-> NoResult]
Returning(r) == [kind |-> "return", exc |-> "", value |-> r]
Raising(e) == [kind |-> "raise", exc |-> e, value |-> NoResult]

Event(op, arg, data) == [op |-> op, arg |-> arg, data |-> data]

\* ------------------------------------------------------ initial state
NoIng ==
  [url |-> None, index_name |-> None, file_path |-> None, text |-> "",
   chunks |-> <<>>, i |-> 0, embeddings |-> <<>>, pending |-> NoPending,
   result |-> NoResult, uuids |-> 0]

NoQry ==
  [query_text |-> 0, index_name |-> None, search_index_name |-> None,
   outcome |-> "", results |-> <<>>]

NoHnd ==
  [documents |-> None, questions |-> 0, process_result |-> NoResult,
   index_name |-> None, answers |-> <<>>, k |-> 0, status |-> 0, detail |-> ""]

InitShared ==
  /\ current_index_name = None
  /\ fs = [path \in Paths |-> NoFile]
  /\ idx = [n \in IndexNames |-> [status |-> "absent", records |-> <<>>]]
  /\ log = [p \in Procs |-> <<>>]
  /\ readySeen = {}

\* The server: every handler idle, the processor constructed.
Init ==
  /\ InitShared
  /\ nchunks = [u \in Urls |->
        CASE u = UrlA -> batch_size + 1
          [] u = UrlB -> 1
          [] u = UrlScan -> 0
          [] u = UrlTxt -> 1]
  /\ pc = [p \in Procs |-> "idle"]
  /\ caller = [p \in Procs |-> "run_hackrx"]
  /\ hnd = [p \in Procs |-> NoHnd]
  /\ ing = [p \in Procs |-> NoIng]
  /\ qry = [p \in Procs |-> NoQry]

Goto(p, l) == pc' = [pc EXCEPT ![p] = l]
Logged(p, e) == log' = [log EXCEPT ![p] = Append(@, e)]

\* ------------------------------------------------------------------
\* DocumentProcessor.process_and_store_document
\* ------------------------------------------------------------------

\* chunk_text: the chunks of a text, in order; chunk k of the document at u
\* is <<u, k>>.
ChunksOf(text) == [k \in 1..nchunks[text] |-> <<text, k>>]

\* Mutant of ChunkBatch: chunks[i:], the slice without its upper end.
ChunkBatchRest(chunks, i) == SubSeq(chunks, i + 1, Len(chunks))

\* chunks[i:i + batch_size] (i counts from 0, as in the source)
ChunkBatch(chunks, i) == SubSeq(chunks, i + 1, Min(i + batch_size, Len(chunks)))

\* The vector the embedding service returns for one text under a task type.
Embed(task, t) == [task |-> task, of |-> t]

\* Mutant of VectorsToUpsert: every record takes the batch's first vector.
VectorsToUpsertFirst(p, chunk_batch, embeddings, used) ==
  [j \in 1..Len(chunk_batch) |->
     [id |-> <<p, used + j>>, values |-> embeddings[1], text |-> chunk_batch[j]]]

\* vectors_to_upsert: one record per chunk of the batch, with a fresh id,
\* the vector at the chunk's position and the chunk as metadata text.
VectorsToUpsert(p, chunk_batch, embeddings, used) ==
  [j \in 1..Len(chunk_batch) |->
     [id |-> <<p, used + j>>, values |-> embeddings[j], text |-> chunk_batch[j]]]

\* The outer "except Exception": a failure result, no exception leaves.
OuterExcept(p, loc, e) ==
  /\ ing' = [ing EXCEPT ![p] = [loc EXCEPT !.result = ExceptResult(e, current_index_name)]]
  /\ Goto(p, "ing_return")

\* An exception or a return inside the inner try: the finally clause runs.
ToFinally(p, loc, pend) ==
  /\ ing' = [ing EXCEPT ![p] = [loc EXCEPT !.pending = pend]]
  /\ Goto(p, "finally")

\* Leaving the finally clause with what was pending.
AfterFinally(p, pend) ==
  /\ ing' = [ing EXCEPT ![p].result =
        IF pend.kind = "return" THEN pend.value
        ELSE ExceptResult(pend.exc, current_index_name)]
  /\ Goto(p, "ing_return")

\* Mutant of LoopHead: range(0, len(chunks) - 1, batch_size).
LoopHeadShort(p, loc) ==
  IF loc.i < Len(loc.chunks) - 1
  THEN /\ ing' = [ing EXCEPT ![p] = loc]
       /\ Goto(p, "embed")
  ELSE ToFinally(p, loc, Returning(SuccessResult(loc.chunks, loc.index_name)))

\* The head of "for i in range(0, len(chunks), batch_size)": the next batch,
\* or the success result once the range is exhausted.
LoopHead(p, loc) ==
  IF loc.i < Len(loc.chunks)
  THEN /\ ing' = [ing EXCEPT ![p] = loc]
       /\ Goto(p, "embed")
  ELSE ToFinally(p, loc, Returning(SuccessResult(loc.chunks, loc.index_name)))

\* Mutant of IngestStart: the current index name is not recorded here.
IngestStartUnrecorded(p) ==
  /\ pc[p] = "ing_start"
  /\ ing' = [ing EXCEPT ![p].index_name = IndexName(ing[p].url)]
  /\ Goto(p, "download")
  /\ UNCHANGED <<current_index_name, fs, idx, nchunks, caller, hnd, qry, log, readySeen>>

\* index_name = "hackrx-doc-" + hash; self.current_index_name = index_name
IngestStart(p) ==
  /\ pc[p] = "ing_start"
  /\ ing' = [ing EXCEPT ![p].index_name = IndexName(ing[p].url)]
  /\ current_index_name' = IndexName(ing[p].url)
  /\ Goto(p, "download")
  /\ UNCHANGED <<fs, idx, nchunks, caller, hnd, qry, log, readySeen>>

\* requests.get(url); response.raise_for_status(); file_path = ...
DownloadGet(p) ==
  /\ pc[p] = "download"
  /\ \/ /\ ing' = [ing EXCEPT ![p].file_path = TempPath(ing[p].url)]
        /\ Goto(p, "open")
     \/ OuterExcept(p, ing[p], "HTTPError")
  /\ UNCHANGED <<current_index_name, fs, idx, nchunks, caller, hnd, qry, log, readySeen>>

\* open(file_path, 'wb'): creates or truncates the file.
DownloadOpen(p) ==
  /\ pc[p] = "open"
  /\ \/ /\ fs' = [fs EXCEPT ![ing[p].file_path] = Partial]
        /\ Logged(p, Event("open", ing[p].file_path, <<>>))
        /\ Goto(p, "write")
        /\ UNCHANGED ing
     \/ /\ OuterExcept(p, ing[p], "OSError")
        /\ UNCHANGED <<fs, log>>
  /\ UNCHANGED <<current_index_name, idx, nchunks, caller, hnd, qry, readySeen>>

\* f.write(response.content); leaving the with block closes the file. A
\* file unlinked meanwhile stays unlinked.
DownloadWrite(p) ==
  /\ pc[p] = "write"
  /\ \/ /\ fs' = IF fs[ing[p].file_path] = NoFile THEN fs
                 ELSE [fs EXCEPT ![ing[p].file_path] = ing[p].url]
        /\ Goto(p, "extract")
        /\ UNCHANGED ing
     \/ /\ OuterExcept(p, ing[p], "OSError")
        /\ UNCHANGED fs
  /\ UNCHANGED <<current_index_name, idx, nchunks, caller, hnd, qry, log, readySeen>>

\* extract_text_from_pdf(file_path), then "if not text: return {...}".
ExtractText(p) ==
  /\ pc[p] = "extract"
  /\ LET path == ing[p].file_path
         content == fs[path]
     IN  IF ~EndsWithPdf(path)
         THEN ToFinally(p, ing[p], Raising("Only PDF files are supported in this version."))
         ELSE IF content \in {NoFile, Partial}
         THEN ToFinally(p, ing[p], Raising("FileDataError"))
         ELSE \/ ToFinally(p, ing[p], Raising("FileDataError"))
              \/ IF nchunks[content] = 0
                 THEN ToFinally(p, ing[p], Returning(NoTextResult(ing[p].index_name)))
                 ELSE /\ ing' = [ing EXCEPT ![p].text = content]
                      /\ Goto(p, "chunk")
  /\ UNCHANGED <<current_index_name, fs, idx, nchunks, caller, hnd, qry, log, readySeen>>

\* chunks = self.chunk_text(text)
ChunkText(p) ==
  /\ pc[p] = "chunk"
  /\ \/ /\ ing' = [ing EXCEPT ![p].chunks = ChunksOf(ing[p].text)]
        /\ Goto(p, "ensure")
     \/ ToFinally(p, ing[p], Raising("SplitterError"))
  /\ UNCHANGED <<current_index_name, fs, idx, nchunks, caller, hnd, qry, log, readySeen>>

\* if index_name not in self.pinecone.list_indexes().names()
EnsureList(p) ==
  /\ pc[p] = "ensure"
  /\ \/ ToFinally(p, ing[p], Raising("PineconeException"))
     \/ /\ idx[ing[p].index_name].status # "absent"
        /\ LoopHead(p, [ing[p] EXCEPT !.i = 0])
     \/ /\ idx[ing[p].index_name].status = "absent"
        /\ Goto(p, "create")
        /\ UNCHANGED ing
  /\ UNCHANGED <<current_index_name, fs, idx, nchunks, caller, hnd, qry, log, readySeen>>

\* self.pinecone.create_index(...): the index is listed, not yet ready.
EnsureCreate(p) ==
  /\ pc[p] = "create"
  /\ \/ /\ idx[ing[p].index_name].status = "absent"
        /\ idx' = [idx EXCEPT ![ing[p].index_name].status = "pending"]
        /\ Goto(p, "poll")
        /\ UNCHANGED ing
     \/ /\ ToFinally(p, ing[p], Raising("PineconeException"))
        /\ UNCHANGED idx
  /\ UNCHANGED <<current_index_name, fs, nchunks, caller, hnd, qry, log, readySeen>>

\* while not self.pinecone.describe_index(index_name).status['ready']: sleep
EnsurePoll(p) ==
  /\ pc[p] = "poll"
  /\ \/ /\ ToFinally(p, ing[p], Raising("PineconeException"))
        /\ UNCHANGED readySeen
     \/ /\ idx[ing[p].index_name].status = "ready"
        /\ readySeen' = readySeen \cup {ing[p].index_name}
        /\ LoopHead(p, [ing[p] EXCEPT !.i = 0])
     \/ /\ idx[ing[p].index_name].status # "ready"
        /\ UNCHANGED <<ing, pc, readySeen>>
  /\ UNCHANGED <<current_index_name, fs, idx, nchunks, caller, hnd, qry, log>>

\* The remote side finishes creating an index.
IndexBecomesReady(n) ==
  /\ idx[n].status = "pending"
  /\ idx' = [idx EXCEPT ![n].status = "ready"]
  /\ UNCHANGED <<current_index_name, fs, nchunks, pc, caller, hnd, ing, qry, log, readySeen>>

\* genai.embed_content(content=chunk_batch, task_type="RETRIEVAL_DOCUMENT"):
\* one vector per text in order, or a response that is one vector short, or
\* an error.
EmbedBatch(p) ==
  /\ pc[p] = "embed"
  /\ LET chunk_batch == ChunkBatch(ing[p].chunks, ing[p].i)
         vectors == [j \in 1..Len(chunk_batch) |-> Embed("RETRIEVAL_DOCUMENT", chunk_batch[j])]
     IN  /\ Logged(p, Event("embed_content", "RETRIEVAL_DOCUMENT", chunk_batch))
         /\ \/ /\ ing' = [ing EXCEPT ![p].embeddings = vectors]
               /\ Goto(p, "upsert")
            \/ /\ ing' = [ing EXCEPT ![p].embeddings = SubSeq(vectors, 1, Len(vectors) - 1)]
               /\ Goto(p, "upsert")
            \/ ToFinally(p, ing[p], Raising("GoogleAPIError"))
  /\ UNCHANGED <<current_index_name, fs, idx, nchunks, caller, hnd, qry, readySeen>>

\* The loop building vectors_to_upsert, index.upsert(vectors=...) and the
\* pacing sleep; embeddings[j] raises IndexError on a short response.
UpsertBatch(p) ==
  /\ pc[p] = "upsert"
  /\ LET loc == ing[p]
         chunk_batch == ChunkBatch(loc.chunks, loc.i)
         vectors_to_upsert == VectorsToUpsert(p, chunk_batch, loc.embeddings, loc.uuids)
     IN  IF Len(loc.embeddings) < Len(chunk_batch)
         THEN /\ ToFinally(p, [loc EXCEPT !.uuids = @ + Len(loc.embeddings)],
                           Raising("IndexError"))
              /\ UNCHANGED <<idx, log>>
         ELSE /\ Logged(p, Event("upsert", loc.index_name, vectors_to_upsert))
              /\ \/ /\ idx' = [idx EXCEPT ![loc.index_name].records = @ \o vectors_to_upsert]
                    /\ LoopHead(p, [loc EXCEPT !.uuids = @ + Len(chunk_batch),
                                               !.i = @ + batch_size])
                 \/ /\ ToFinally(p, [loc EXCEPT !.uuids = @ + Len(chunk_batch)],
                                 Raising("PineconeException"))
                    /\ UNCHANGED idx
  /\ UNCHANGED <<current_index_name, fs, nchunks, caller, hnd, qry, readySeen>>

\* finally: if os.path.exists(file_path)
FinallyExists(p) ==
  /\ pc[p] = "finally"
  /\ IF fs[ing[p].file_path] # NoFile
     THEN Goto(p, "remove") /\ UNCHANGED ing
     ELSE AfterFinally(p, ing[p].pending)
  /\ UNCHANGED <<current_index_name, fs, idx, nchunks, caller, hnd, qry, log, readySeen>>

\* os.remove(file_path): raises FileNotFoundError when the file has gone
\* since the check, and that exception replaces what was pending.
FinallyRemove(p) ==
  /\ pc[p] = "remove"
  /\ IF fs[ing[p].file_path] # NoFile
     THEN /\ fs' = [fs EXCEPT ![ing[p].file_path] = NoFile]
          /\ AfterFinally(p, ing[p].pending)
     ELSE /\ AfterFinally(p, Raising("FileNotFoundError"))
          /\ UNCHANGED fs
  /\ UNCHANGED <<current_index_name, idx, nchunks, caller, hnd, qry, log, readySeen>>

Ingest(p) ==
  \/ IngestStart(p)
  \/ DownloadGet(p)
  \/ DownloadOpen(p)
  \/ DownloadWrite(p)
  \/ ExtractText(p)
  \/ ChunkText(p)
  \/ EnsureList(p)
  \/ EnsureCreate(p)
  \/ EnsurePoll(p)
  \/ EmbedBatch(p)
  \/ UpsertBatch(p)
  \/ FinallyExists(p)
  \/ FinallyRemove(p)

\* ------------------------------------------------------------------
\* DocumentProcessor.query_documents
\* ------------------------------------------------------------------

\* Every exit of query_documents: a list, never an exception.
QueryReturn(p, loc, results) ==
  /\ qry' = [qry EXCEPT ![p] = [loc EXCEPT !.results = results]]
  /\ Goto(p, "q_return")

\* Mutant of SearchIndexName: the session state takes precedence.
SearchIndexNameSession(index_name, cur) == PyOr(cur, index_name)

\* search_index_name = index_name or self.current_index_name
SearchIndexName(index_name, cur) == PyOr(index_name, cur)

\* The results list built from search_results['matches'].
Results(matches) ==
  [j \in 1..Len(matches) |->
     [text |-> matches[j].text, score |-> matches[j].score, id |-> matches[j].id]]

\* What index.query may answer with for an index holding recs: at most top_k
\* matches in rank order.
Matches(recs, m) ==
  [j \in 1..m |-> [text |-> recs[j].text, score |-> top_k - j, id |-> recs[j].id]]

\* A match whose metadata text is not a string (a record another client of
\* the index store wrote).
NonStringText == <<"<not a str>", 0>>
ForeignMatch == [text |-> NonStringText, score |-> top_k, id |-> <<"other", 0>>]

\* The resolution of the target index and the fail-closed return.
QueryResolve(p) ==
  /\ pc[p] = "q_start"
  /\ LET name == SearchIndexName(qry[p].index_name, current_index_name)
         loc == [qry[p] EXCEPT !.search_index_name = name]
     IN  IF ~Truthy(name)
         THEN QueryReturn(p, loc, <<>>)
         ELSE /\ qry' = [qry EXCEPT ![p] = loc]
              /\ Goto(p, "q_embed")
  /\ UNCHANGED <<current_index_name, fs, idx, nchunks, caller, hnd, ing, log, readySeen>>

\* genai.embed_content(content=[query_text], task_type="RETRIEVAL_QUERY")
QueryEmbed(p) ==
  /\ pc[p] = "q_embed"
  /\ Logged(p, Event("embed_content", "RETRIEVAL_QUERY", <<qry[p].query_text>>))
  /\ \/ /\ Goto(p, "q_search")
        /\ UNCHANGED qry
     \/ QueryReturn(p, qry[p], <<>>)
  /\ UNCHANGED <<current_index_name, fs, idx, nchunks, caller, hnd, ing, readySeen>>

\* index = self.pinecone.Index(search_index_name); index.query(...); the
\* except clause turns any error into [].
QuerySearch(p) ==
  /\ pc[p] = "q_search"
  /\ Logged(p, Event("query", qry[p].search_index_name, <<qry[p].query_text>>))
  /\ LET recs == idx[qry[p].search_index_name].records
     IN  \/ /\ idx[qry[p].search_index_name].status # "absent"
            /\ \E m \in {0, Min(top_k, Len(recs))} :
                 QueryReturn(p, qry[p], Results(Matches(recs, m)))
         \/ /\ idx[qry[p].search_index_name].status # "absent"
            /\ QueryReturn(p, qry[p], Results(<<ForeignMatch>>))
         \/ QueryReturn(p, qry[p], <<>>)
  /\ UNCHANGED <<current_index_name, fs, idx, nchunks, caller, hnd, ing, readySeen>>

Query(p) ==
  \/ QueryResolve(p)
  \/ QueryEmbed(p)
  \/ QuerySearch(p)

\* ------------------------------------------------------------------
\* run_hackrx and generate_answer_with_context (src/api/main.py)
\* ------------------------------------------------------------------

HTTPException(code, detail) == [type |-> "HTTPException", status_code |-> code, detail |-> detail]

\* Mutant of OuterHandler: no "except HTTPException: raise" clause.
OuterHandlerCatchAll(exc) ==
  HTTPException(HTTP_500_INTERNAL_SERVER_ERROR, "Internal server error: " \o exc.detail)

\* The handler's outer clauses: "except HTTPException: raise" and
\* "except Exception: raise HTTPException(500, ...)".
OuterHandler(exc) ==
  IF exc.type = "HTTPException"
  THEN exc
  ELSE HTTPException(HTTP_500_INTERNAL_SERVER_ERROR, "Internal server error: " \o exc.detail)

\* An answer string: the question it was produced for and the statement
\* that appended it ("try": what generate_answer_with_context returned, be it
\* the model's text, the no-information sentence or its error description;
\* "except": the "Error processing question" string).
Answer(k, site) == [question |-> k, site |-> site]

\* Mutant of AppendAnswer: the answer is inserted at the front.
AppendAnswerFront(answers, a) == <<a>> \o answers

\* response.answers.append(...)
AppendAnswer(answers, a) == Append(answers, a)

\* Mutant of NextQuestion: the call omits index_name.
NextQuestionNoIndex(p, loc, k, calls) ==
  IF k <= loc.questions
  THEN /\ hnd' = [hnd EXCEPT ![p] = [loc EXCEPT !.k = k]]
       /\ qry' = [qry EXCEPT ![p] = [NoQry EXCEPT !.query_text = k]]
       /\ log' = [log EXCEPT ![p] = <<>>]
       /\ Goto(p, "q_start")
  ELSE /\ hnd' = [hnd EXCEPT ![p] = [loc EXCEPT !.k = k, !.status = HTTP_200_OK]]
       /\ qry' = [qry EXCEPT ![p] = NoQry]
       /\ log' = [log EXCEPT ![p] = calls]
       /\ Goto(p, "done")

\* The call processor.query_documents(question, top_k=5, index_name=index_name)
\* for question k, or "return response" after the last one.
NextQuestion(p, loc, k, calls) ==
  IF k <= loc.questions
  THEN /\ hnd' = [hnd EXCEPT ![p] = [loc EXCEPT !.k = k]]
       /\ qry' = [qry EXCEPT ![p] = [NoQry EXCEPT !.query_text = k, !.index_name = loc.index_name]]
       /\ log' = [log EXCEPT ![p] = <<>>]
       /\ Goto(p, "q_start")
  ELSE /\ hnd' = [hnd EXCEPT ![p] = [loc EXCEPT !.k = k, !.status = HTTP_200_OK]]
       /\ qry' = [qry EXCEPT ![p] = NoQry]
       /\ log' = [log EXCEPT ![p] = calls]
       /\ Goto(p, "done")

\* The request arrives: the token check, then the call of ingest. (The
\* questions of the request are drawn where the handler first reads them.)
Receive(p) ==
  /\ pc[p] = "idle"
  /\ \E u \in Urls, token_ok \in BOOLEAN :
       LET loc == [hnd[p] EXCEPT !.documents = u]
       IN  IF ~token_ok
           THEN /\ hnd' = [hnd EXCEPT ![p] = [loc EXCEPT !.status = HTTP_401_UNAUTHORIZED,
                                                       !.detail = "Invalid or missing API Key"]]
                /\ Goto(p, "done")
                /\ UNCHANGED ing
           ELSE /\ hnd' = [hnd EXCEPT ![p] = loc]
                /\ ing' = [ing EXCEPT ![p] = [NoIng EXCEPT !.url = u]]
                /\ Goto(p, "ing_start")
  /\ UNCHANGED <<current_index_name, fs, idx, nchunks, caller, qry, log, readySeen>>

\* process_result is back (the locals of the call are gone): 400 on a failure
\* result, else the question loop.
HandleResult(p) ==
  /\ pc[p] = "ing_return"
  /\ caller[p] = "run_hackrx"
  /\ LET process_result == ing[p].result
         loc == [hnd[p] EXCEPT !.process_result = process_result]
     IN  IF ~process_result.success
         THEN LET exc == OuterHandler(HTTPException(HTTP_400_BAD_REQUEST,
                            "Failed to process document: " \o process_result.message))
              IN  /\ hnd' = [hnd EXCEPT ![p] = [loc EXCEPT !.status = exc.status_code,
                                                         !.detail = exc.detail]]
                  /\ Goto(p, "done")
                  /\ UNCHANGED <<qry, log>>
         ELSE \E n \in 0..MaxQuestions :
                NextQuestion(p, [loc EXCEPT !.questions = n,
                                            !.index_name = process_result.index_name,
                                            !.answers = <<>>], 1, log[p])
  /\ ing' = [ing EXCEPT ![p] = NoIng]
  /\ UNCHANGED <<current_index_name, fs, idx, nchunks, caller, readySeen>>

\* generate_answer_with_context(question, search_results) and the append,
\* including the per-question except clause (the join raises TypeError on a
\* text that is not a string).
GenerateAnswer(p) ==
  /\ pc[p] = "q_return"
  /\ caller[p] = "run_hackrx"
  /\ LET search_results == qry[p].results
         k == hnd[p].k
         appended(site) == [hnd[p] EXCEPT !.answers = AppendAnswer(@, Answer(k, site))]
         generate(outcome) == Append(log[p], Event("generate_content", outcome, <<k>>))
     IN  IF search_results = <<>>
         THEN \* the no-information sentence, without a call of the model
              NextQuestion(p, appended("try"), k + 1, log[p])
         ELSE IF \E j \in 1..Len(search_results) : search_results[j].text = NonStringText
         THEN \* TypeError in the join, caught by the handler's except clause
              NextQuestion(p, appended("except"), k + 1, log[p])
         ELSE \* model.generate_content(prompt): response.text.strip(), or the
              \* "Error generating answer: ..." string of its except clause
              \E outcome \in {"text", "error"} :
                NextQuestion(p, appended("try"), k + 1, generate(outcome))
  /\ UNCHANGED <<current_index_name, fs, idx, nchunks, caller, ing, readySeen>>

Handler(p) ==
  \/ Receive(p)
  \/ HandleResult(p)
  \/ GenerateAnswer(p)

\* ------------------------------------------------------------------
\* Specifications
\* ------------------------------------------------------------------

\* The server: requests handled on the one shared processor. Handlers are
\* interleaved at every file operation and remote call, as the claims about
\* interleaved requests suppose; a server that runs one request at a time
\* has a subset of these behaviours.
Next ==
  \/ \E p \in Procs : Handler(p)
  \/ \E p \in Procs : Ingest(p)
  \/ \E p \in Procs : Query(p)
  \/ \E n \in IndexNames : IndexBecomesReady(n)

Spec == Init /\ [][Next]_vars

\* One direct call of process_and_store_document (the module's __main__),
\* for a document of any number of chunks up to MaxChunks, with the index
\* absent, still being created, or ready from an earlier run.
IngestStatuses == {"absent", "pending", "ready"}

DirectProc == "r1"

InitBatch ==
  /\ current_index_name = None
  /\ fs = [path \in Paths |-> NoFile]
  /\ log = [p \in Procs |-> <<>>]
  /\ \E c \in 1..MaxChunks :
       nchunks = [u \in Urls |-> IF u = UrlScan THEN 0 ELSE c]
  /\ pc = [p \in Procs |-> IF p = DirectProc THEN "ing_start" ELSE "done"]
  /\ caller = [p \in Procs |-> "direct"]
  /\ hnd = [p \in Procs |-> NoHnd]
  /\ \E u \in Urls, st \in IngestStatuses :
       /\ ing = [p \in Procs |-> IF p = DirectProc THEN [NoIng EXCEPT !.url = u] ELSE NoIng]
       /\ idx = [n \in IndexNames |->
                   [status |-> IF n = IndexName(u) THEN st ELSE "absent", records |-> <<>>]]
       /\ readySeen = IF st = "ready" THEN {IndexName(u)} ELSE {}
  /\ qry = [p \in Procs |-> NoQry]

NextBatch ==
  \/ Ingest(DirectProc)
  \/ \E n \in IndexNames : IndexBecomesReady(n)

SpecBatch == InitBatch /\ [][NextBatch]_vars

\* One direct call of query_documents, with any index_name argument, on a
\* processor whose current index name is unset or left by an earlier ingest,
\* against an index store left by earlier ingests.
StoredRecord(u) ==
  [id |-> <<"r2", 1>>, values |-> Embed("RETRIEVAL_DOCUMENT", <<u, 1>>), text |-> <<u, 1>>]

InitQuery ==
  /\ current_index_name \in {None} \cup IndexNames
  /\ fs = [path \in Paths |-> NoFile]
  /\ log = [p \in Procs |-> <<>>]
  /\ \E ready \in SUBSET {UrlA, UrlB} :
       /\ idx = [n \in IndexNames |->
                   IF \E u \in ready : n = IndexName(u)
                   THEN [status |-> "ready",
                         records |-> <<StoredRecord(CHOOSE u \in ready : n = IndexName(u))>>]
                   ELSE [status |-> "absent", records |-> <<>>]]
       /\ readySeen = {IndexName(u) : u \in ready}
  /\ nchunks = [u \in Urls |-> IF u = UrlScan THEN 0 ELSE 1]
  /\ pc = [p \in Procs |-> IF p = DirectProc THEN "q_start" ELSE "done"]
  /\ caller = [p \in Procs |-> "direct"]
  /\ hnd = [p \in Procs |-> NoHnd]
  /\ ing = [p \in Procs |-> NoIng]
  /\ \E q \in 1..MaxQuestions, name \in {None, ""} \cup IndexNames :
       qry = [p \in Procs |->
                IF p = DirectProc THEN [NoQry EXCEPT !.query_text = q, !.index_name = name]
                ELSE NoQry]

NextQuery == Query(DirectProc)

SpecQuery == InitQuery /\ [][NextQuery]_vars

\* ------------------------------------------------------------------
\* Properties
\* ------------------------------------------------------------------

HasEvent(p, op) == \E j \in 1..Len(log[p]) : log[p][j].op = op

EventsOf(p, op) == SelectSeq(log[p], LAMBDA e : e.op = op)

RECURSIVE Concat(_)
Concat(ss) == IF ss = <<>> THEN <<>> ELSE Head(ss) \o Concat(Tail(ss))

\* The record sequences of the upsert calls of p, in call order.
Upserted(p) == [b \in 1..Len(EventsOf(p, "upsert")) |-> EventsOf(p, "upsert")[b].data]

\* The chunk batches p sent to the embedding service in document mode.
Embedded(p) ==
  LET es == SelectSeq(log[p], LAMBDA e : e.op = "embed_content" /\ e.arg = "RETRIEVAL_DOCUMENT")
  IN  [b \in 1..Len(es) |-> es[b].data]

InQuestionLoop(p) == pc[p] \in {"q_start", "q_embed", "q_search", "q_return"}

\* C1: a request with a valid token whose ingest succeeded is answered with
\* exactly one answer per question, answer i being the one produced for
\* question i, whatever each question's query and generation did; while the
\* loop is at question k it holds the answers of questions 1..k-1.
C1_OneAnswerPerQuestion ==
  \A p \in Procs :
    /\ \A i \in 1..Len(hnd[p].answers) : hnd[p].answers[i].question = i
    /\ InQuestionLoop(p) => Len(hnd[p].answers) = hnd[p].k - 1
    /\ hnd[p].status = HTTP_200_OK => Len(hnd[p].answers) = hnd[p].questions

\* C1 witness: a 200 response to two or more questions, one of them answered
\* by the except clause and one by the normal path.
C1_Witness ==
  \E p \in Procs :
    /\ hnd[p].status = HTTP_200_OK
    /\ hnd[p].questions >= 2
    /\ \E i, j \in 1..Len(hnd[p].answers) :
         hnd[p].answers[i].site = "except" /\ hnd[p].answers[j].site = "try"

\* C2 (as claimed): when ingest returns after having created its temporary
\* file, the file no longer exists.
C2_TempFileGoneOnReturn ==
  \A p \in Procs :
    (pc[p] = "ing_return" /\ HasEvent(p, "open")) => fs[TempPath(ing[p].url)] = NoFile

\* C3: ingest ends only by returning a result: a failure result carries a
\* message and chunks_processed = 0, and a success result is returned only
\* when every chunk of the document was embedded and upserted, in order.
C3_IngestReturnsResult ==
  \A p \in Procs :
    pc[p] = "ing_return" =>
      LET r == ing[p].result
      IN  /\ r.message # ""
          /\ ~r.success => r.chunks_processed = 0
          /\ r.success =>
               /\ ing[p].chunks # <<>>
               /\ r.chunks_processed = Len(ing[p].chunks)
               /\ Concat(Embedded(p)) = ing[p].chunks
               /\ [j \in 1..Len(Concat(Upserted(p))) |-> Concat(Upserted(p))[j].text]
                    = ing[p].chunks

\* C3 witness: a failure result produced from an exception raised while the
\* second batch was stored, and (elsewhere) the result is returned.
C3_Witness ==
  \E p \in Procs :
    /\ pc[p] = "ing_return"
    /\ ~ing[p].result.success
    /\ ing[p].pending.kind = "raise"
    /\ ing[p].i >= batch_size

\* The index query_documents has to target: the index_name argument when
\* one is given (None and the empty string count as not given, as Python's
\* "or" has it), else the processor's current index name.
TargetOf(p) ==
  IF Truthy(qry[p].index_name) THEN qry[p].index_name ELSE current_index_name

C4_QueryState ==
  \A p \in Procs :
    /\ pc[p] \in {"q_embed", "q_search", "q_return"} =>
         /\ qry[p].search_index_name = TargetOf(p)
         /\ Len(EventsOf(p, "query")) <= 1
         /\ \A j \in 1..Len(log[p]) :
              log[p][j].op = "query" => log[p][j].arg = TargetOf(p)
    /\ pc[p] \in {"q_embed", "q_search"} => Truthy(qry[p].search_index_name)
    /\ (pc[p] = "q_return" /\ ~Truthy(TargetOf(p))) =>
         qry[p].results = <<>> /\ log[p] = <<>>
    /\ (pc[p] = "q_return" /\ ~HasEvent(p, "query")) => qry[p].results = <<>>

\* C4: query_documents ends only by returning a list; it targets exactly
\* one index, the index_name argument when given, else the current index
\* name; with neither it returns [] without a call of the embedding service
\* or the index store; it returns [] when the embedding call or the index
\* query fails; and no step of it changes the current index name.
C4_QueryContract ==
  /\ []C4_QueryState
  /\ [][current_index_name' = current_index_name]_vars

\* C4 witness: a query without a usable index_name argument has searched the
\* current index and returned matches.
C4_Witness ==
  \E p \in Procs :
    /\ pc[p] = "q_return"
    /\ ~Truthy(qry[p].index_name)
    /\ qry[p].results # <<>>
    /\ HasEvent(p, "query")

\* C5 (as claimed): every upsert into an index comes after a describe_index
\* call that reported that index ready.
C5_UpsertAfterReady ==
  \A p \in Procs :
    \A j \in 1..Len(log[p]) : log[p][j].op = "upsert" => log[p][j].arg \in readySeen

\* C6 (as claimed): the current index name is written only by the step that
\* completes the storing of the last batch, before the success result.
C6_RecordedAfterStoring ==
  [][current_index_name' # current_index_name =>
       \E p \in Procs :
         /\ pc[p] \in {"ensure", "poll", "upsert"}
         /\ pc'[p] = "finally"
         /\ ing'[p].pending.kind = "return"
         /\ ing'[p].pending.value.success]_vars

\* C6 (amended): ingest records the computed index name as the current index
\* name in its first step, before the document is fetched, and no later step
\* of ingest writes the current index name.
C6_RecordedAtStart ==
  [][/\ \A p \in Procs :
          (pc[p] = "ing_start" /\ pc'[p] # "ing_start") =>
             current_index_name' = IndexName(ing[p].url)
     /\ current_index_name' # current_index_name =>
          \E p \in Procs : pc[p] = "ing_start" /\ pc'[p] = "download"]_vars

\* C6 witness: the name is recorded while nothing has been fetched yet, and
\* it stays recorded after that ingest has failed.
C6_Witness ==
  \E p \in Procs :
    /\ pc[p] = "ing_return"
    /\ ~ing[p].result.success
    /\ ~HasEvent(p, "open")
    /\ current_index_name = ing[p].index_name

QueryPhaseEvent(e) ==
  \/ e.op \in {"query", "generate_content"}
  \/ e.op = "embed_content" /\ e.arg = "RETRIEVAL_QUERY"

\* C7: a request whose ingest returned a failure result ends with 400, with
\* no query_documents call and no generation for any question; 400 is given
\* for nothing else, and no ingest failure and no per-question failure ends
\* in 500.
C7_IngestFailureIs400 ==
  \A p \in Procs :
    /\ (pc[p] = "done" /\ hnd[p].status # HTTP_401_UNAUTHORIZED
          /\ ~hnd[p].process_result.success) =>
         /\ hnd[p].status = HTTP_400_BAD_REQUEST
         /\ hnd[p].k = 0
         /\ hnd[p].answers = <<>>
         /\ \A j \in 1..Len(log[p]) : ~QueryPhaseEvent(log[p][j])
    /\ hnd[p].status = HTTP_400_BAD_REQUEST => ~hnd[p].process_result.success
    /\ hnd[p].status # HTTP_500_INTERNAL_SERVER_ERROR
    /\ pc[p] = "done" =>
         hnd[p].status \in {HTTP_200_OK, HTTP_400_BAD_REQUEST, HTTP_401_UNAUTHORIZED}

\* C7 witness: a 400 response after an ingest that failed while storing.
C7_Witness ==
  \E p \in Procs :
    /\ pc[p] = "done"
    /\ hnd[p].status = HTTP_400_BAD_REQUEST
    /\ HasEvent(p, "upsert")

Ceil(a, b) == (a + b - 1) \div b

\* C8: a successful ingest of c chunks embeds ceil(c/50) batches in chunk
\* order, each of at most 50 chunks, once in document mode, and upserts each
\* once; record j of a batch carries chunk j of the batch as text and the
\* vector of that chunk as values; c records are upserted and reported.
C8_BatchesInOrder ==
  \A p \in Procs :
    (pc[p] = "ing_return" /\ ing[p].result.success) =>
      LET chunks == ing[p].chunks
          c == Len(chunks)
          embedded == Embedded(p)
          upserted == Upserted(p)
      IN  /\ Len(embedded) = Ceil(c, batch_size)
          /\ Len(upserted) = Ceil(c, batch_size)
          /\ \A b \in 1..Len(embedded) :
               /\ Len(embedded[b]) <= batch_size
               /\ embedded[b] =
                    SubSeq(chunks, (b - 1) * batch_size + 1, Min(b * batch_size, c))
               /\ Len(upserted[b]) = Len(embedded[b])
               /\ \A j \in 1..Len(upserted[b]) :
                    /\ upserted[b][j].text = embedded[b][j]
                    /\ upserted[b][j].values = Embed("RETRIEVAL_DOCUMENT", embedded[b][j])
          /\ Len(Concat(upserted)) = c
          /\ Cardinality({Concat(upserted)[j].id : j \in 1..c}) = c
          /\ ing[p].result.chunks_processed = c
          /\ idx[ing[p].index_name].records = Concat(upserted)

\* C8 witness: a successful ingest of three batches, the last one partial.
C8_Witness ==
  \E p \in Procs :
    /\ pc[p] = "ing_return"
    /\ ing[p].result.success
    /\ Len(ing[p].chunks) > 2 * batch_size
    /\ Len(ing[p].chunks) % batch_size # 0

\* C9: every index query a request handler issues targets the index named
\* after the request's own document URL, whatever the shared current index
\* name is at that moment.
C9_QueryOwnIndex ==
  \A p \in Procs :
    caller[p] = "run_hackrx" =>
      /\ pc[p] \in {"q_embed", "q_search"} =>
           qry[p].search_index_name = IndexName(hnd[p].documents)
      /\ InQuestionLoop(p) =>
           \A j \in 1..Len(log[p]) :
             log[p][j].op = "query" => log[p][j].arg = IndexName(hnd[p].documents)

\* C9 witness: a handler has queried its own index while the current index
\* name is that of another request's document.
C9_Witness ==
  \E p \in Procs :
    /\ pc[p] = "q_return"
    /\ HasEvent(p, "query")
    /\ qry[p].results # <<>>
    /\ current_index_name # None
    /\ current_index_name # IndexName(hnd[p].documents)

\* C10: the records a single ingest has added to its index are those of the
\* batches before the failing one, chunks 1..i; after a failure no further
\* batch is embedded or upserted and the result reports chunks_processed = 0
\* with nothing rolled back; so the records added equal chunks_processed
\* exactly when the ingest succeeded or failed before its first upsert.
C10_NoRollback ==
  \A p \in Procs :
    pc[p] = "ing_return" =>
      LET stored == idx[ing[p].index_name].records
          done == Min(ing[p].i, Len(ing[p].chunks))
          batches == ing[p].i \div batch_size
      IN  /\ [j \in 1..Len(stored) |-> stored[j].text] = SubSeq(ing[p].chunks, 1, done)
          /\ ~ing[p].result.success => ing[p].result.chunks_processed = 0
          /\ Len(Embedded(p)) \in {batches, batches + 1}
          /\ Len(Upserted(p)) \in {batches, batches + 1}
          /\ Len(Upserted(p)) <= Len(Embedded(p))
          /\ (Len(stored) = ing[p].result.chunks_processed)
               <=> (ing[p].result.success \/ ing[p].i = 0)

\* C10 witness: a failure result after two batches were stored.
C10_Witness ==
  \E p \in Procs :
    /\ pc[p] = "ing_return"
    /\ ~ing[p].result.success
    /\ ing[p].result.chunks_processed = 0
    /\ Len(idx[ing[p].index_name].records) = 2 * batch_size
    /\ Len(ing[p].chunks) > 2 * batch_size

====
